---- MODULE Spec2Model ----
(***************************************************************************)
(* lumen-photonics: the circuit graph (PhotonicCircuit and its builder     *)
(* calls) and the scheduler of Simulation, as state machines.              *)
(*                                                                         *)
(* A circuit object is a record: the fields of PhotonicCircuit plus the    *)
(* fields of the Component and Port objects it reaches.  `circuit' is the  *)
(* caller's circuit; `work' is the object simulate() obtains from          *)
(* copy.deepcopy.  Numeric fields (Jones vectors, S-matrices) are kept as  *)
(* provenance records: which chain, which wavelength, which time, which    *)
(* source a value was computed from.                                       *)
(***************************************************************************)
EXTENDS Integers, Sequences, FiniteSets, TLC

(***************************************************************************)
(* Bounds of the model.                                                    *)
(***************************************************************************)
MaxCalls == 2

(***************************************************************************)
(* The universe of objects.  c1, c2, c5, c6: 1-in/1-out (PhaseShifter);    *)
(* c3: 2-in/2-out (BeamSplitter); c4: a second 1-in/1-out object that      *)
(* carries the same name as c1.  k1, k2 are the _CondensedComponent        *)
(* objects that condensation creates.                                      *)
(***************************************************************************)
UserComps == {"c1", "c2", "c3", "c4"}
ChainComps == {"c5", "c6"}
CondensedComps == {"k1", "k2"}
Comps == UserComps \cup ChainComps \cup CondensedComps
NoComp == "-"

CONDENSED_COMPONENT == "CONDENSED_COMPONENT"

name(c) ==
    CASE c = "c1" -> "A"
      [] c = "c2" -> "B"
      [] c = "c3" -> "S"
      [] c = "c4" -> "A"
      [] c = "c5" -> "D"
      [] c = "c6" -> "E"
      [] OTHER    -> CONDENSED_COMPONENT

Names == {"A", "B", "S", "D", "E", CONDENSED_COMPONENT}

num_inputs(c) == IF c = "c3" THEN 2 ELSE 1
num_outputs(c) == IF c = "c3" THEN 2 ELSE 1
NumPorts(c) == num_inputs(c) + num_outputs(c)

\* a port is <<owning component, position in _ports (inputs first)>>
Ports == UNION {{<<c, i>> : i \in 1..NumPorts(c)} : c \in Comps}
NoPort == <<NoComp, 0>>
component(p) == p[1]

INPUT == "INPUT"
OUTPUT == "OUTPUT"
port_type(p) == IF p[2] <= num_inputs(p[1]) THEN INPUT ELSE OUTPUT

PortsOf(c) == {p \in Ports : component(p) = c}

\* Connection variants
NoConnection == [tag |-> "None", port |-> NoPort]
InputConnection == [tag |-> "InputConnection", port |-> NoPort]
OutputConnection == [tag |-> "OutputConnection", port |-> NoPort]
PortConnection(p) == [tag |-> "PortConnection", port |-> p]

Lasers == {"L1", "L2", "L3"}

\* aliases installed on the components before they are used
Aliases == {"in"}
NoAlias == "-"
port_aliases(c) ==
    [a \in Aliases |-> IF c = "c1" /\ a = "in" THEN <<"c1", 1>> ELSE NoPort]

(***************************************************************************)
(* Port references handed to the builder calls: a component name and an    *)
(* integer index or an alias.                                              *)
(***************************************************************************)
IntRefs == {[component |-> n, kind |-> "int", index |-> i, alias |-> NoAlias] :
              n \in {"A", "B"}, i \in 1..2}
           \cup {[component |-> "S", kind |-> "int", index |-> i, alias |-> NoAlias] :
              i \in 1..3}
           \cup {[component |-> "A", kind |-> "int", index |-> i, alias |-> NoAlias] :
              i \in {0, 3}}
StrRefs == {[component |-> n, kind |-> "str", index |-> 0, alias |-> "in"] :
              n \in {"A", "B"}}
PortRefs == IntRefs \cup StrRefs


(***************************************************************************)
(* PhotonicCircuit.__init__ : the empty circuit.  The record also carries  *)
(* the fields of the components and ports (back-pointer, connection,       *)
(* degree counters, the matrix of a condensed component).                  *)
(***************************************************************************)
NoMatrix == [chain |-> <<>>, wavelength |-> 0]

EmptyCircuit ==
    [components          |-> <<>>,
     names_to_components |-> [n \in Names |-> NoComp],
     photonic_circuit    |-> [c \in Comps |-> FALSE],
     connection          |-> [p \in Ports |-> NoConnection],
     in_degree           |-> [c \in Comps |-> 0],
     out_degree          |-> [c \in Comps |-> 0],
     circuit_inputs      |-> <<>>,
     circuit_outputs     |-> <<>>,
     s_matrix            |-> [c \in CondensedComps |-> NoMatrix]]

\* ---- Python list / dict helpers -----------------------------------------
Range(s) == {s[i] : i \in 1..Len(s)}

\* list.index(x): position of the first occurrence, 0 when absent
IndexOf(s, x) ==
    IF \E i \in 1..Len(s) : s[i] = x
    THEN CHOOSE i \in 1..Len(s) : s[i] = x /\ \A j \in 1..(i - 1) : s[j] # x
    ELSE 0

\* list.remove(x): drops the first occurrence only
ListRemove(s, x) ==
    LET k == IndexOf(s, x)
    IN  IF k = 0 THEN s
        ELSE [i \in 1..(Len(s) - 1) |-> IF i < k THEN s[i] ELSE s[i + 1]]

\* the keys of the insertion-ordered dict _circuit_inputs
InputPorts(st) == {st.circuit_inputs[i].port : i \in 1..Len(st.circuit_inputs)}
InputKeys(st) == [i \in 1..Len(st.circuit_inputs) |-> st.circuit_inputs[i].port]

\* dict[port] = laser: an existing key keeps its position
DictSet(d, p, l) ==
    IF \E i \in 1..Len(d) : d[i].port = p
    THEN [i \in 1..Len(d) |-> IF d[i].port = p THEN [port |-> p, laser |-> l] ELSE d[i]]
    ELSE Append(d, [port |-> p, laser |-> l])

\* dict.pop(port)
DictPop(d, p) ==
    LET k == IndexOf([i \in 1..Len(d) |-> d[i].port], p)
    IN  IF k = 0 THEN d
        ELSE [i \in 1..(Len(d) - 1) |-> IF i < k THEN d[i] ELSE d[i + 1]]

DictGet(d, p) ==
    LET k == IndexOf([i \in 1..Len(d) |-> d[i].port], p)
    IN  d[k].laser

(***************************************************************************)
(* PhotonicCircuit._get_port_from_ref.  A Python list index i - 1 that is  *)
(* negative counts from the end of the list.                               *)
(***************************************************************************)
Resolved(p) == [err |-> "ok", port |-> p]
Failed(e) == [err |-> e, port |-> NoPort]

ListItem(c, k) ==
    \* component._ports[k] for a 0-based Python index k
    IF k >= 0 /\ k < NumPorts(c) THEN Resolved(<<c, k + 1>>)
    ELSE IF k < 0 /\ k >= -NumPorts(c) THEN Resolved(<<c, NumPorts(c) + k + 1>>)
    ELSE Failed("IndexError")

get_port_from_ref(st, port_ref) ==
    IF st.names_to_components[port_ref.component] = NoComp
    THEN Failed("MissingComponentException")
    ELSE LET c == st.names_to_components[port_ref.component]
         IN  IF port_ref.kind = "int"
             THEN ListItem(c, port_ref.index - 1)
             ELSE IF port_aliases(c)[port_ref.alias] # NoPort
                  THEN Resolved(port_aliases(c)[port_ref.alias])
                  ELSE Failed("MissingAliasException")

\* the outcome of a call: the state it leaves and how it ended
Ret(st, r) == [st |-> st, res |-> r]

(***************************************************************************)
(* SelfConnectionException(...) / ConflictingConnectionException(...):     *)
(* the constructors resolve the port again; for an alias they read         *)
(* self.component, which is never assigned, so that the raise statement    *)
(* ends in AttributeError.                                                 *)
(***************************************************************************)
Raised(exception, port_ref) ==
    IF port_ref.kind = "str" THEN "AttributeError" ELSE exception

(***************************************************************************)
(* Component.connect_port / disconnect_port / _disconnect_by_port.         *)
(* Only the local side changes; a degree counter moves only when the       *)
(* local port goes from None to connected or back.                         *)
(***************************************************************************)
BumpDegree(st, p, d) ==
    IF port_type(p) = INPUT
    THEN [st EXCEPT !.in_degree[component(p)] = @ + d]
    ELSE [st EXCEPT !.out_degree[component(p)] = @ + d]

get_port(c, port_ref) ==
    IF port_ref.kind = "int" THEN ListItem(c, port_ref.index - 1)
    ELSE IF port_aliases(c)[port_ref.alias] # NoPort
         THEN Resolved(port_aliases(c)[port_ref.alias])
         ELSE Failed("MissingAliasException")

connect_port(st, c, port_name, to) ==
    LET local == get_port(c, port_name).port
        other == get_port_from_ref(st, to).port
        st1   == IF st.connection[local] = NoConnection
                 THEN BumpDegree(st, local, 1) ELSE st
    IN  [st1 EXCEPT !.connection[local] = PortConnection(other)]

disconnect_by_port(st, p) ==
    LET st1 == IF st.connection[p] # NoConnection
               THEN BumpDegree(st, p, -1) ELSE st
    IN  [st1 EXCEPT !.connection[p] = NoConnection]

disconnect_port(st, c, port_name) ==
    disconnect_by_port(st, get_port(c, port_name).port)

(***************************************************************************)
(* PhotonicCircuit.set_circuit_input                                       *)
(***************************************************************************)
set_circuit_input(st, laser, port_ref) ==
    LET r == get_port_from_ref(st, port_ref)
        port == r.port
    IN  IF r.err # "ok" THEN Ret(st, r.err)
        ELSE IF port \in Range(st.circuit_outputs)
        THEN Ret(st, Raised("ConflictingConnectionException", port_ref))
        ELSE LET st1 == [st EXCEPT !.circuit_inputs = DictSet(@, port, laser)]
                 st2 == IF st1.connection[port] = NoConnection
                        THEN [st1 EXCEPT !.in_degree[component(port)] = @ + 1]
                        ELSE st1
             IN  Ret([st2 EXCEPT !.connection[port] = InputConnection], "ok")

(***************************************************************************)
(* PhotonicCircuit.set_circuit_output: the port is appended to the output  *)
(* list before the conflict test.                                          *)
(***************************************************************************)
set_circuit_output(st, port_ref) ==
    LET r == get_port_from_ref(st, port_ref)
        port == r.port
    IN  IF r.err # "ok" THEN Ret(st, r.err)
        ELSE LET st1 == [st EXCEPT !.circuit_outputs = Append(@, port)]
             IN  IF port \in InputPorts(st1)
                 THEN Ret(st1, Raised("ConflictingConnectionException", port_ref))
                 ELSE LET st2 == IF st1.connection[port] = NoConnection
                                 THEN [st1 EXCEPT !.out_degree[component(port)] = @ + 1]
                                 ELSE st1
                      IN  Ret([st2 EXCEPT !.connection[port] = OutputConnection], "ok")

(***************************************************************************)
(* PhotonicCircuit.add / remove                                            *)
(***************************************************************************)
\* add without the test of the name map
add_without_name_test(st, c) ==
    IF c \in Range(st.components) THEN Ret(st, "DuplicateComponentException")
    ELSE Ret([st EXCEPT !.photonic_circuit[c] = TRUE,
                        !.components = Append(@, c),
                        !.names_to_components[name(c)] = c], "ok")

add(st, c) ==
    IF c \in Range(st.components) THEN Ret(st, "DuplicateComponentException")
    ELSE IF st.names_to_components[name(c)] # NoComp
    THEN Ret(st, "DuplicateComponentNameException")
    ELSE Ret([st EXCEPT !.photonic_circuit[c] = TRUE,
                        !.components = Append(@, c),
                        !.names_to_components[name(c)] = c], "ok")

remove(st, c) ==
    LET st1 == [st EXCEPT !.photonic_circuit[c] = FALSE]
    IN  IF c \notin Range(st1.components) THEN Ret(st1, "ValueError")
        ELSE LET st2 == [st1 EXCEPT !.components = ListRemove(@, c)]
             IN  IF st2.names_to_components[name(c)] = NoComp
                 THEN Ret(st2, "KeyError")
                 ELSE Ret([st2 EXCEPT !.names_to_components[name(c)] = NoComp], "ok")

(***************************************************************************)
(* PhotonicCircuit.connect.  The self-connection test compares the two     *)
(* references field by field; the output designation is dropped from the   *)
(* destination and the input designation from the source.                  *)
(***************************************************************************)
SamePortName(r1, r2) ==
    /\ r1.kind = r2.kind
    /\ IF r1.kind = "int" THEN r1.index = r2.index ELSE r1.alias = r2.alias

connect(st, source, destination) ==
    LET r1 == get_port_from_ref(st, source)
        r2 == get_port_from_ref(st, destination)
        circuit_input_port == r1.port
        circuit_output_port == r2.port
    IN  IF r1.err # "ok" THEN Ret(st, r1.err)
        ELSE IF r2.err # "ok" THEN Ret(st, r2.err)
        ELSE LET component1 == st.names_to_components[source.component]
                 component2 == st.names_to_components[destination.component]
             IN  IF source.component = destination.component
                    /\ SamePortName(source, destination)
                 THEN Ret(st, Raised("SelfConnectionException", source))
                 ELSE LET st1 == IF circuit_output_port \in Range(st.circuit_outputs)
                                 THEN [st EXCEPT !.circuit_outputs =
                                            ListRemove(@, circuit_output_port)]
                                 ELSE st
                          st2 == IF circuit_input_port \in InputPorts(st1)
                                 THEN [st1 EXCEPT !.circuit_inputs =
                                            DictPop(@, circuit_input_port)]
                                 ELSE st1
                          st3 == connect_port(st2, component1, source, destination)
                      IN  Ret(connect_port(st3, component2, destination, source), "ok")

(***************************************************************************)
(* PhotonicCircuit.disconnect                                              *)
(***************************************************************************)
\* a disconnect that clears the named port and leaves its peer as it is
disconnect_named_port_only(st, port_ref) ==
    LET r == get_port_from_ref(st, port_ref)
    IN  IF r.err # "ok" THEN Ret(st, r.err)
        ELSE Ret(disconnect_port(st, st.names_to_components[port_ref.component],
                                 port_ref), "ok")

disconnect(st, port_ref) ==
    LET r == get_port_from_ref(st, port_ref)
        port1 == r.port
    IN  IF r.err # "ok" THEN Ret(st, r.err)
        ELSE LET port2 == st.connection[port1]
                 st1 == IF port2.tag = "PortConnection"
                        THEN disconnect_by_port(st, port2.port)
                        ELSE st
                 c == st1.names_to_components[port_ref.component]
             IN  Ret(disconnect_port(st1, c, port_ref), "ok")

(***************************************************************************)
(* Simulation: the condenser.  Every step returns the circuit it leaves    *)
(* and the exception that ended it ("ok" when none).                       *)
(***************************************************************************)
DUMMY_WAVELENGTH == 1000000000

Step(st, e) == [st |-> st, err |-> e]

\* Component.get_s_matrix(wavelength): a library component evaluates its
\* formula at the wavelength; _CondensedComponent returns its stored matrix.
get_s_matrix(st, c, wavelength) ==
    IF c \in CondensedComps THEN st.s_matrix[c]
    ELSE [chain |-> <<c>>, wavelength |-> wavelength]

\* Simulation._get_condensed_s_matrix: the Redheffer fold of the chain, each
\* link evaluated at the wavelength.
get_condensed_s_matrix(sequential_chain, wavelength) ==
    [chain |-> sequential_chain, wavelength |-> wavelength]

\* Simulation._is_disconnected
is_disconnected(st, c) ==
    \A p \in PortsOf(c) : st.connection[p] = NoConnection

\* the pruning loop of _condense_circuit: a for loop over the list it
\* removes from; i is the iterator's position (1-based)
RECURSIVE PruneFrom(_, _)
PruneFrom(st, i) ==
    IF i > Len(st.components) THEN st
    ELSE LET c == st.components[i]
         IN  IF is_disconnected(st, c)
             THEN PruneFrom([st EXCEPT !.components = ListRemove(@, c)], i + 1)
             ELSE PruneFrom(st, i + 1)

IsAnchor(st, c) == st.in_degree[c] # 1 \/ st.out_degree[c] # 1

anchor_components(st) ==
    LET Test(c) == IsAnchor(st, c)
    IN  SelectSeq(st.components, Test)

\* Simulation._find_sequential_chain.  The while loop has no exit once it
\* comes back to a component it has already appended: hang marks that run.
RECURSIVE Walk(_, _, _, _)
Walk(st, current_component, anchors, sequential_components) ==
    IF current_component \in Range(anchors)
    THEN [chain |-> sequential_components, hang |-> FALSE]
    ELSE IF current_component \in Range(sequential_components)
    THEN [chain |-> sequential_components, hang |-> TRUE]
    ELSE LET current_connection == st.connection[<<current_component, 2>>]
         IN  IF current_connection.tag = "PortConnection"
             THEN Walk(st, component(current_connection.port), anchors,
                       Append(sequential_components, current_component))
             ELSE [chain |-> Append(sequential_components, current_component),
                   hang |-> FALSE]

find_sequential_chain(st, c, anchors) == Walk(st, c, anchors, <<>>)

\* the components the walks of _condense_circuit start from, in order:
\* behind every wired OUTPUT port of every anchor, then at every circuit input
RECURSIVE Flatten(_)
Flatten(ss) == IF ss = <<>> THEN <<>> ELSE Head(ss) \o Flatten(Tail(ss))

AnchorStarts(st, anchor) ==
    LET IsStart(i) == /\ port_type(<<anchor, i>>) = OUTPUT
                      /\ st.connection[<<anchor, i>>].tag = "PortConnection"
        idx == SelectSeq([i \in 1..NumPorts(anchor) |-> i], IsStart)
    IN  [j \in 1..Len(idx) |-> component(st.connection[<<anchor, idx[j]>>].port)]

WalkStarts(st, anchors) ==
    Flatten([j \in 1..Len(anchors) |-> AnchorStarts(st, anchors[j])])
    \o [j \in 1..Len(st.circuit_inputs) |-> component(st.circuit_inputs[j].port)]

\* PhotonicCircuit._connect_by_port
connect_by_port(st, port1, port2) ==
    [st EXCEPT !.connection[port1] = PortConnection(port2),
               !.connection[port2] = PortConnection(port1)]

RECURSIVE RemoveAll(_, _)
RemoveAll(st, component_list) ==
    IF component_list = <<>> THEN Step(st, "ok")
    ELSE IF Head(component_list) \notin Range(st.components)
    THEN Step(st, "ValueError")
    ELSE RemoveAll([st EXCEPT !.components = ListRemove(@, Head(component_list))],
                   Tail(component_list))

\* Simulation._replace_components, the upstream side
ReplaceUpstream(st, first_port, k) ==
    LET previous_component_output == st.connection[first_port]
    IN  IF previous_component_output.tag = "PortConnection"
        THEN Step(connect_by_port(st, previous_component_output.port, <<k, 1>>), "ok")
        ELSE LET st1 == [st EXCEPT !.connection[<<k, 1>>] = previous_component_output]
             IN  IF previous_component_output.tag = "InputConnection"
                 THEN IF first_port \notin InputPorts(st1)
                      THEN Step(st1, "KeyError")
                      ELSE Step([st1 EXCEPT !.circuit_inputs =
                                    DictSet(DictPop(@, first_port), <<k, 1>>,
                                            DictGet(st1.circuit_inputs, first_port))],
                                "ok")
                 ELSE IF previous_component_output.tag = "OutputConnection"
                 THEN Step(st1, "TypeError")
                 ELSE Step(st1, "ok")

\* Simulation._replace_components, the downstream side
ReplaceDownstream(st, last_port, next_component_input, k) ==
        IF next_component_input.tag = "PortConnection"
        THEN Step(connect_by_port(st, next_component_input.port, <<k, 2>>), "ok")
        ELSE LET st1 == [st EXCEPT !.connection[<<k, 2>>] = next_component_input]
             IN  IF next_component_input.tag = "OutputConnection"
                 THEN IF last_port \notin Range(st1.circuit_outputs)
                      THEN Step(st1, "ValueError")
                      ELSE Step([st1 EXCEPT !.circuit_outputs[
                                    IndexOf(st1.circuit_outputs, last_port)] = <<k, 2>>],
                                "ok")
                 ELSE IF next_component_input.tag = "InputConnection"
                 THEN IF last_port \notin InputPorts(st1)
                      THEN Step(st1, "KeyError")
                      ELSE Step([st1 EXCEPT !.circuit_inputs =
                                    DictSet(DictPop(@, last_port), <<k, 2>>,
                                            DictGet(st1.circuit_inputs, last_port))],
                                "ok")
                 ELSE Step(st1, "ok")

replace_components(st, component_list, k) ==
    LET first_port == <<component_list[1], 1>>
        last_port  == <<component_list[Len(component_list)], 2>>
        \* both connections are read before either side is rewired
        next_component_input == st.connection[last_port]
        up == ReplaceUpstream(st, first_port, k)
    IN  IF up.err # "ok" THEN up
        ELSE LET down == ReplaceDownstream(up.st, last_port, next_component_input, k)
             IN  IF down.err # "ok" THEN down
                 ELSE RemoveAll([down.st EXCEPT !.connection[first_port] = NoConnection,
                                                !.connection[last_port] = NoConnection],
                                component_list)

\* Simulation._condense_sequential_chain_coherent; k is the object that
\* _CondensedComponent(...) creates
condense_sequential_chain_coherent(st, sequential_chain, wavelength, k) ==
    LET st1 == [st EXCEPT !.s_matrix[k] =
                    get_condensed_s_matrix(sequential_chain, wavelength)]
        r == add(st1, k)
    IN  IF r.res # "ok" THEN Step(r.st, r.res)
        ELSE replace_components(r.st, sequential_chain, k)

NewCondensed(n) == IF n = 1 THEN "k1" ELSE "k2"

RECURSIVE CondenseAll(_, _, _)
CondenseAll(st, sequential_paths, n) ==
    IF n > Len(sequential_paths) THEN Step(st, "ok")
    ELSE LET r == condense_sequential_chain_coherent(
                      st, sequential_paths[n], DUMMY_WAVELENGTH, NewCondensed(n))
         IN  IF r.err # "ok" THEN r
             ELSE CondenseAll(r.st, sequential_paths, n + 1)

\* Simulation._condense_circuit
condense_circuit(st) ==
    LET pruned == PruneFrom(st, 1)
        anchors == anchor_components(pruned)
        starts == WalkStarts(pruned, anchors)
        walks == [j \in 1..Len(starts) |->
                     find_sequential_chain(pruned, starts[j], anchors)]
        LongEnough(w) == Len(w.chain) >= 2
        found == SelectSeq(walks, LongEnough)
        sequential_paths == [j \in 1..Len(found) |-> found[j].chain]
    IN  IF \E j \in 1..Len(walks) : walks[j].hang
        THEN [st |-> pruned, err |-> "ok", hang |-> TRUE, sequential_paths |-> <<>>]
        ELSE LET r == CondenseAll(pruned, sequential_paths, 1)
             IN  [st |-> r.st, err |-> r.err, hang |-> FALSE,
                  sequential_paths |-> sequential_paths]

(***************************************************************************)
(* Simulation: assembly.  A port has an index when its component is in     *)
(* the component list of the working circuit.                              *)
(***************************************************************************)
WAVELENGTH_TOLERANCE == 1

Indexed(st, p) == component(p) \in Range(st.components)

\* the lookups port_to_index[...] of _get_connectivity_matrix succeed
ConnectivityOk(st) ==
    \A p \in Ports :
        (Indexed(st, p) /\ port_type(p) = OUTPUT
            /\ st.connection[p].tag = "PortConnection")
        => Indexed(st, st.connection[p].port)

\* lines 105-113 of simulate: the ports of the working circuit in component
\* insertion order; port_to_index counts from 0
index_to_port(st) ==
    Flatten([j \in 1..Len(st.components) |->
                [i \in 1..NumPorts(st.components[j]) |-> <<st.components[j], i>>]])

port_to_index(st, p) == IndexOf(index_to_port(st), p) - 1

\* the entries that the wire held by port p adds to rows and cols, counted at
\* position (r, c)
WireEntries(st, p, r, c) ==
    LET port_index_1 == port_to_index(st, p)
        port_index_2 == port_to_index(st, st.connection[p].port)
        p1h == 2 * port_index_1
        p1v == 2 * port_index_1 + 1
        p2h == 2 * port_index_2
        p2v == 2 * port_index_2 + 1
        At(row, col) == IF r = row /\ c = col THEN 1 ELSE 0
    IN  At(p1h, p2h) + At(p2h, p1h) + At(p1v, p2v) + At(p2v, p1v)

RECURSIVE SumEntries(_, _, _, _)
SumEntries(st, ports, r, c) ==
    IF ports = <<>> THEN 0
    ELSE LET p == Head(ports)
         IN  (IF port_type(p) = OUTPUT /\ st.connection[p].tag = "PortConnection"
              THEN WireEntries(st, p, r, c) ELSE 0)
             + SumEntries(st, Tail(ports), r, c)

\* Simulation._get_connectivity_matrix: coo_matrix adds up the entries that
\* fall on the same position
get_connectivity_matrix(st) ==
    LET num_ports == Len(index_to_port(st))
    IN  [r \in 0..(2 * num_ports - 1) |->
            [c \in 0..(2 * num_ports - 1) |->
                SumEntries(st, index_to_port(st), r, c)]]

\* block_diag of the component matrices at one wavelength
global_s_matrix(st, wavelength) ==
    [j \in 1..Len(st.components) |-> get_s_matrix(st, st.components[j], wavelength)]

\* Simulation._check_coherence
COHERENT == "COHERENT"
INCOHERENT == "INCOHERENT"
\* the test with the boundary moved from one input to two
check_coherence_up_to_two(st) ==
    IF Len(st.circuit_inputs) <= 2 THEN COHERENT ELSE INCOHERENT

check_coherence(st) ==
    IF Len(st.circuit_inputs) = 1 THEN COHERENT ELSE INCOHERENT

\* Laser.__call__(t)._wavelength, in nanometres
\* L1 keeps its wavelength; L2 moves by two tolerances per unit of time, L3 by
\* exactly one tolerance
laser_wavelength(l, t) ==
    CASE l = "L1" -> 1550
      [] l = "L2" -> 1550 + 2 * t
      [] OTHER    -> 1550 + WAVELENGTH_TOLERANCE * t

\* the running maximum and minimum kept by the sampling loops of simulate
RECURSIVE MaxMin(_, _, _, _)
MaxMin(w, i, max_wavelength, min_wavelength) ==
    IF i > Len(w) THEN [max |-> max_wavelength, min |-> min_wavelength]
    ELSE IF w[i] > max_wavelength THEN MaxMin(w, i + 1, w[i], min_wavelength)
    ELSE IF w[i] < min_wavelength THEN MaxMin(w, i + 1, max_wavelength, w[i])
    ELSE MaxMin(w, i + 1, max_wavelength, min_wavelength)

Spread(w) == LET m == MaxMin(w, 1, w[1], w[1]) IN m.max - m.min

\* a binding of the same object instead of a copy of it
same_object(st) == [object |-> "self", st |-> st]

\* copy.deepcopy(self._photonic_circuit): a new object with the same contents
deepcopy(st) == [object |-> "copy", st |-> st]

(***************************************************************************)
(* Circuits the builder calls are started from: each is obtained from the  *)
(* empty circuit by a script of builder calls.                             *)
(***************************************************************************)
NoRef == [component |-> "-", kind |-> "int", index |-> 0, alias |-> NoAlias]
Ref(n, i) == [component |-> n, kind |-> "int", index |-> i, alias |-> NoAlias]

NoCall == [op |-> "-", source |-> NoRef, destination |-> NoRef,
           laser |-> "-", component |-> NoComp]
CallAdd(c) == [NoCall EXCEPT !.op = "add", !.component = c]
CallRemove(c) == [NoCall EXCEPT !.op = "remove", !.component = c]
CallConnect(a, b) == [NoCall EXCEPT !.op = "connect", !.source = a, !.destination = b]
CallDisconnect(a) == [NoCall EXCEPT !.op = "disconnect", !.source = a]
CallInput(l, a) == [NoCall EXCEPT !.op = "set_circuit_input", !.laser = l, !.source = a]
CallOutput(a) == [NoCall EXCEPT !.op = "set_circuit_output", !.source = a]

Apply(st, c) ==
    CASE c.op = "add"                -> add(st, c.component)
      [] c.op = "remove"             -> remove(st, c.component)
      [] c.op = "connect"            -> connect(st, c.source, c.destination)
      [] c.op = "disconnect"         -> disconnect(st, c.source)
      [] c.op = "set_circuit_input"  -> set_circuit_input(st, c.laser, c.source)
      [] c.op = "set_circuit_output" -> set_circuit_output(st, c.source)

RECURSIVE Run(_, _)
Run(st, script) ==
    IF script = <<>> THEN st
    ELSE Run(Apply(st, Head(script)).st, Tail(script))

AllAdded == <<CallAdd("c1"), CallAdd("c2"), CallAdd("c3")>>

BuildStarts ==
    {Run(EmptyCircuit, <<>>),
     Run(EmptyCircuit, AllAdded)}

\* circuit: the caller's PhotonicCircuit.  call, result: the last builder
\* call and how it ended.  pre: the circuit as it was before that call.
\* failed: some call so far has raised.  roundtrip: follows a connect of two
\* dangling ports and the disconnect that comes right after it.
VARIABLES circuit, call, result, pre, calls, failed, roundtrip

\* The run of Simulation.simulate / get_s_parameters.  work: the object made
\* by copy.deepcopy.  local: the object the local name photonic_circuit is
\* bound to.  pc: the position in the call.  sim: its local variables.
\* lights: SimulationResult._port_to_output_lights.  s_parameters: the list
\* get_s_parameters builds.  error: the exception that ended the call.
VARIABLES work, local, pc, sim, lights, s_parameters, error

\* the matrix handed to _select_solver (its dimension and stored non-zero
\* count) and the solver chosen for it
VARIABLES matrix, solver

buildvars == <<call, result, calls, failed, roundtrip>>
simvars == <<work, local, pc, sim, lights, s_parameters, error>>
solvervars == <<matrix, solver>>

\* one component's alias dictionaries (Component._input_port_aliases and
\* _output_port_aliases), the last alias call on it, what the call returned
\* or raised, the dictionaries before the call, and whether the module
\* lumen.circuit.exceptions can be imported in this installation
VARIABLES input_port_aliases, output_port_aliases, alias_call, alias_result,
          alias_pre, exceptions_importable

aliasvars == <<input_port_aliases, output_port_aliases, alias_call,
               alias_result, alias_pre, exceptions_importable>>
vars == <<circuit, pre, buildvars, simvars, solvervars, aliasvars>>

NoSolver == "-"
NoSystem == [dim |-> 0, nnz |-> 0]
SolverIdle == matrix = NoSystem /\ solver = NoSolver

AliasNames == {"x", "y"}
NoAliases == [a \in AliasNames |-> NoPort]
NoAliasCall == [op |-> "-", index |-> 0, alias |-> NoAlias]
NoAliasResult == [err |-> "-", port |-> NoPort]
AliasIdle ==
    /\ input_port_aliases = NoAliases
    /\ output_port_aliases = NoAliases
    /\ alias_call = NoAliasCall
    /\ alias_result = NoAliasResult
    /\ alias_pre = [input |-> NoAliases, output |-> NoAliases]
    /\ exceptions_importable = FALSE

NoSim == [entry |-> "-", times |-> <<>>, coherence |-> "-",
          sequential_paths |-> <<>>, wavelengths |-> <<>>,
          input_wavelengths |-> [l \in Lasers |-> <<>>],
          constant_wavelength |-> FALSE, wavelength |-> 0,
          global_s_matrix |-> <<>>, global_s_matrix_list |-> <<>>, i |-> 1]

NoLights == [p \in Ports |-> <<>>]

SimIdle ==
    /\ work = EmptyCircuit
    /\ local = "-"
    /\ pc = "idle"
    /\ sim = NoSim
    /\ lights = NoLights
    /\ s_parameters = <<>>
    /\ error = "-"

NoRoundTrip == [stage |-> 0, a |-> NoPort, b |-> NoPort,
                in_degree |-> [c \in Comps |-> 0],
                out_degree |-> [c \in Comps |-> 0]]

Init ==
    /\ circuit \in BuildStarts
    /\ call = NoCall
    /\ result = "-"
    /\ pre = circuit
    /\ calls = 0
    /\ failed = FALSE
    /\ roundtrip = NoRoundTrip
    /\ SimIdle
    /\ SolverIdle
    /\ AliasIdle

Follow(st, c, res) ==
    LET a == get_port_from_ref(st, c.source).port
        b == get_port_from_ref(st, c.destination).port
    IN  IF /\ c.op = "connect" /\ res = "ok" /\ a # b
           /\ st.connection[a] = NoConnection
           /\ st.connection[b] = NoConnection
        THEN [stage |-> 1, a |-> a, b |-> b,
              in_degree |-> st.in_degree, out_degree |-> st.out_degree]
        ELSE IF /\ roundtrip.stage = 1 /\ c.op = "disconnect" /\ res = "ok"
                /\ a \in {roundtrip.a, roundtrip.b}
        THEN [roundtrip EXCEPT !.stage = 2]
        ELSE NoRoundTrip

\* one builder call on the caller's circuit
Do(c) ==
    /\ calls < MaxCalls
    /\ LET r == Apply(circuit, c)
       IN  /\ circuit' = r.st
           /\ result' = r.res
           /\ failed' = (failed \/ r.res # "ok")
           /\ roundtrip' = Follow(circuit, c, r.res)
    /\ call' = c
    /\ pre' = circuit
    /\ calls' = calls + 1
    /\ UNCHANGED <<simvars, solvervars, aliasvars>>

\* builder calls are made while no simulation call is running
Add == \E c \in UserComps : pc = "idle" /\ Do(CallAdd(c))
Remove == \E c \in UserComps : pc = "idle" /\ Do(CallRemove(c))
Connect == \E a, b \in PortRefs : pc = "idle" /\ Do(CallConnect(a, b))
Disconnect == \E a \in PortRefs : pc = "idle" /\ Do(CallDisconnect(a))
SetCircuitInput ==
    \E l \in Lasers, a \in PortRefs : pc = "idle" /\ Do(CallInput(l, a))
SetCircuitOutput == \E a \in PortRefs : pc = "idle" /\ Do(CallOutput(a))

Next ==
    \/ Add
    \/ Remove
    \/ Connect
    \/ Disconnect
    \/ SetCircuitInput
    \/ SetCircuitOutput

Spec == Init /\ [][Next]_vars

(***************************************************************************)
(* Simulation.simulate and Simulation.get_s_parameters, step by step.      *)
(***************************************************************************)
MaxTimes == 2

Times == {0, 1}
TimesArrays == UNION {[1..n -> Times] : n \in 0..MaxTimes}
SweepWavelengths == {1550, 1552}
WavelengthArrays == UNION {[1..n -> SweepWavelengths] : n \in 0..MaxTimes}

\* the circuit object the local name photonic_circuit is bound to
Local == IF local = "self" THEN circuit ELSE work

SetLocal(st) ==
    IF local = "self" THEN circuit' = st /\ work' = work
    ELSE work' = st /\ circuit' = circuit

Raise(e) == pc' = "raised" /\ error' = e
Goto(l) == pc' = l /\ error' = error

\* a test that asks for both collections to be empty
both_empty(st) ==
    Len(st.circuit_inputs) = 0 /\ Len(st.circuit_outputs) = 0

\* the test of lines 92 and 367
empty_interface(st) ==
    Len(st.circuit_inputs) = 0 \/ Len(st.circuit_outputs) = 0

\* lines 92-100 of simulate, 367-373 of get_s_parameters
Begin(entry, times) ==
    /\ pre' = circuit
    /\ UNCHANGED <<circuit, buildvars, solvervars, aliasvars, lights, s_parameters>>
    /\ IF empty_interface(circuit)
       THEN /\ Raise("EmptyInterfaceException")
            /\ sim' = [NoSim EXCEPT !.entry = entry, !.times = times]
            /\ UNCHANGED <<work, local>>
       ELSE LET photonic_circuit == deepcopy(circuit)
            IN  /\ local' = photonic_circuit.object
                /\ work' = IF photonic_circuit.object = "copy"
                           THEN photonic_circuit.st ELSE work
                /\ sim' = [NoSim EXCEPT
                             !.entry = entry, !.times = times,
                             !.coherence = IF entry = "simulate"
                                           THEN check_coherence(photonic_circuit.st)
                                           ELSE "-"]
                /\ Goto("condense")

\* a call is made on a Simulation that is not inside another call
Simulate ==
    \E times \in TimesArrays : pc = "idle" /\ Begin("simulate", times)

GetSParameters ==
    \E wavelengths \in WavelengthArrays :
        pc = "idle" /\ Begin("get_s_parameters", wavelengths)

\* line 102 of simulate, 375 of get_s_parameters
Condense ==
    /\ pc = "condense"
    /\ LET r == condense_circuit(Local)
       IN  /\ SetLocal(r.st)
           /\ IF r.hang THEN Goto("hang") /\ sim' = sim
              ELSE IF r.err # "ok" THEN Raise(r.err) /\ sim' = sim
              ELSE /\ Goto("assemble")
                   /\ sim' = [sim EXCEPT !.sequential_paths = r.sequential_paths]
    /\ UNCHANGED <<pre, buildvars, solvervars, aliasvars, local, lights, s_parameters>>

\* the wavelengths one laser shows over the times array
Sampled(l, times) == [i \in 1..Len(times) |-> laser_wavelength(l, times[i])]

\* lines 224-237: input_wavelengths and the constant-wavelength flag of the
\* incoherent regime, one laser after the other
RECURSIVE SampleLasers(_, _, _, _, _)
SampleLasers(inputs, times, j, input_wavelengths, constant_wavelength) ==
    IF j > Len(inputs)
    THEN [input_wavelengths |-> input_wavelengths,
          constant_wavelength |-> constant_wavelength]
    ELSE LET laser == inputs[j].laser
             w == Sampled(laser, times)
         IN  SampleLasers(inputs, times, j + 1,
                 [input_wavelengths EXCEPT ![laser] = @ \o w],
                 IF constant_wavelength /\ Spread(w) > WAVELENGTH_TOLERANCE
                 THEN FALSE ELSE constant_wavelength)

\* lines 104-158 and 218-240 of simulate, 377-396 of get_s_parameters
Assemble ==
    /\ pc = "assemble"
    /\ UNCHANGED <<circuit, pre, buildvars, solvervars, aliasvars, work, local, lights, s_parameters>>
    /\ IF ~ConnectivityOk(Local) THEN Raise("KeyError") /\ sim' = sim
       ELSE IF sim.entry = "get_s_parameters" THEN Goto("sweep") /\ sim' = sim
       ELSE IF sim.times = <<>> THEN Raise("IndexError") /\ sim' = sim
       ELSE IF sim.coherence = COHERENT
       THEN LET laser == Local.circuit_inputs[1].laser
                wavelengths == Sampled(laser, sim.times)
                constant_wavelength == Spread(wavelengths) < WAVELENGTH_TOLERANCE
            IN  /\ Goto("coherent")
                /\ sim' = [sim EXCEPT
                             !.wavelengths = wavelengths,
                             !.constant_wavelength = constant_wavelength,
                             !.wavelength = IF constant_wavelength
                                            THEN wavelengths[1] ELSE @,
                             !.global_s_matrix =
                                 IF constant_wavelength
                                 THEN global_s_matrix(Local, wavelengths[1]) ELSE @]
       ELSE LET r == SampleLasers(Local.circuit_inputs, sim.times, 1,
                                  [l \in Lasers |-> <<>>], TRUE)
            IN  /\ Goto("incoherent")
                /\ sim' = [sim EXCEPT
                             !.input_wavelengths = r.input_wavelengths,
                             !.constant_wavelength = r.constant_wavelength]

\* a solved field read at a port: which port, for which time a_ext was
\* built, the wavelength it is labelled with, the global S of the solve and
\* the source that was excited (NoPort: all of them)
Light(port, time, wavelength, S, source) ==
    [port |-> port, time |-> time, wavelength |-> wavelength, S |-> S,
     source |-> source]

\* _port_to_output_lights[self._photonic_circuit._circuit_outputs[idx]]
\*     .append(sample), for idx over the outputs of the working circuit
RECURSIVE AppendSamples(_, _, _, _)
AppendSamples(res, keys, samples, idx) ==
    IF idx > Len(samples) THEN res
    ELSE AppendSamples([res EXCEPT ![keys[idx]] = Append(@, samples[idx])],
                       keys, samples, idx + 1)

\* ...[-1].coherent_lights.append(light)
RECURSIVE AppendToLast(_, _, _, _)
AppendToLast(res, keys, new_lights, idx) ==
    IF idx > Len(new_lights) THEN res
    ELSE AppendToLast(
             [res EXCEPT ![keys[idx]][Len(res[keys[idx]])].lights =
                             Append(@, new_lights[idx])],
             keys, new_lights, idx + 1)

\* the exception of the port_to_index lookups of one solve, "ok" when none
LookupError(st) ==
    IF \E j \in 1..Len(st.circuit_inputs) : ~Indexed(st, st.circuit_inputs[j].port)
    THEN "KeyError"
    ELSE IF \E j \in 1..Len(st.circuit_outputs) : ~Indexed(st, st.circuit_outputs[j])
    THEN "KeyError"
    ELSE IF Len(st.circuit_outputs) > Len(circuit.circuit_outputs)
    THEN "IndexError"
    ELSE "ok"

\* one pass of the time loop of the coherent regime: lines 160-179 (constant
\* wavelength) or 184-216 (varying wavelength)
SolveCoherent ==
    /\ pc = "coherent"
    /\ sim.i <= Len(sim.times)
    /\ UNCHANGED <<circuit, pre, buildvars, solvervars, aliasvars, work, local, s_parameters>>
    /\ LET st == Local
           time == sim.times[sim.i]
           wavelength == IF sim.constant_wavelength THEN sim.wavelength
                         ELSE sim.wavelengths[sim.i]
           S == IF sim.constant_wavelength THEN sim.global_s_matrix
                ELSE global_s_matrix(st, wavelength)
           samples == [idx \in 1..Len(st.circuit_outputs) |->
                          [kind |-> COHERENT,
                           lights |-> <<Light(st.circuit_outputs[idx], time,
                                              wavelength, S, NoPort)>>]]
       IN  IF LookupError(st) # "ok"
           THEN Raise(LookupError(st)) /\ UNCHANGED <<sim, lights>>
           ELSE /\ lights' = AppendSamples(lights, circuit.circuit_outputs, samples, 1)
                /\ sim' = [sim EXCEPT !.i = @ + 1, !.wavelength = wavelength]
                /\ Goto("coherent")

\* the lights one source adds to the open sample of every output
SourceLights(st, time, wavelength, S, source) ==
    [idx \in 1..Len(st.circuit_outputs) |->
        Light(st.circuit_outputs[idx], time, wavelength, S, source)]

RECURSIVE SolveSources(_, _, _, _, _, _)
SolveSources(res, st, time, wavelength, global_s_matrix_list, j) ==
    IF j > Len(st.circuit_inputs) THEN res
    ELSE SolveSources(
             AppendToLast(res, circuit.circuit_outputs,
                          SourceLights(st, time, wavelength, global_s_matrix_list[j],
                                       st.circuit_inputs[j].port), 1),
             st, time, wavelength, global_s_matrix_list, j + 1)

\* one pass of the time loop of the incoherent regime: lines 245-296
\* (constant wavelength) or 301-349 (varying wavelength)
SolveIncoherent ==
    /\ pc = "incoherent"
    /\ sim.i <= Len(sim.times)
    /\ UNCHANGED <<circuit, pre, buildvars, solvervars, aliasvars, work, local, s_parameters>>
    /\ LET st == Local
           time == sim.times[sim.i]
           n == Len(st.circuit_inputs)
           WavelengthOf(j) ==
               IF sim.constant_wavelength
               THEN sim.input_wavelengths[st.circuit_inputs[j].laser][1]
               ELSE sim.input_wavelengths[st.circuit_inputs[j].laser][sim.i]
           global_s_matrix_list ==
               sim.global_s_matrix_list
               \o [j \in 1..n |-> global_s_matrix(st, WavelengthOf(j))]
           wavelength == WavelengthOf(n)
           blanks == [idx \in 1..Len(st.circuit_outputs) |->
                         [kind |-> INCOHERENT, lights |-> <<>>]]
       IN  IF sim.sequential_paths # <<>>
           THEN \* chain_to_condensed_component[sequential_path]: the key is a list
                Raise("TypeError") /\ UNCHANGED <<sim, lights>>
           ELSE IF LookupError(st) # "ok"
           THEN Raise(LookupError(st)) /\ UNCHANGED <<sim, lights>>
           ELSE /\ lights' = SolveSources(
                                 AppendSamples(lights, circuit.circuit_outputs, blanks, 1),
                                 st, time, wavelength, global_s_matrix_list, 1)
                /\ sim' = [sim EXCEPT !.i = @ + 1, !.wavelength = wavelength,
                                      !.global_s_matrix_list = global_s_matrix_list]
                /\ Goto("incoherent")

\* one pass of the wavelength loop of get_s_parameters: lines 397-441
SolveSweep ==
    /\ pc = "sweep"
    /\ sim.i <= Len(sim.times)
    /\ UNCHANGED <<circuit, pre, buildvars, solvervars, aliasvars, work, local, lights>>
    /\ LET st == Local
           wavelength == sim.times[sim.i]
       IN  IF LookupError(st) \notin {"ok", "IndexError"}
           THEN Raise(LookupError(st)) /\ UNCHANGED <<sim, s_parameters>>
           ELSE /\ s_parameters' = Append(s_parameters,
                       [wavelength |-> wavelength,
                        S |-> global_s_matrix(st, wavelength),
                        inputs |-> InputKeys(st),
                        outputs |-> st.circuit_outputs])
                /\ sim' = [sim EXCEPT !.i = @ + 1, !.wavelength = wavelength]
                /\ Goto("sweep")

\* return simulation_result / return S_parameter_list
Return ==
    /\ pc \in {"coherent", "incoherent", "sweep"}
    /\ sim.i > Len(sim.times)
    /\ Goto("returned")
    /\ UNCHANGED <<circuit, pre, buildvars, solvervars, aliasvars, work, local, sim, lights, s_parameters>>

NextSim ==
    \/ Simulate
    \/ GetSParameters
    \/ Condense
    \/ Assemble
    \/ SolveCoherent
    \/ SolveIncoherent
    \/ SolveSweep
    \/ Return

(***************************************************************************)
(* Circuits a Simulation is constructed over: each is built by builder     *)
(* calls from the empty circuit.                                           *)
(***************************************************************************)
\* A -> B, one laser in, one port out
ChainScript(l) ==
    <<CallAdd("c1"), CallAdd("c2"), CallConnect(Ref("A", 2), Ref("B", 1)),
      CallInput(l, Ref("A", 1)), CallOutput(Ref("B", 2))>>

\* A -> B -> splitter, a second laser on the splitter's other input
ChainIntoSplitterScript(l1, l2) ==
    <<CallAdd("c1"), CallAdd("c2"), CallAdd("c3"),
      CallConnect(Ref("A", 2), Ref("B", 1)), CallConnect(Ref("B", 2), Ref("S", 1)),
      CallInput(l1, Ref("A", 1)), CallInput(l2, Ref("S", 2)),
      CallOutput(Ref("S", 3))>>

\* a splitter alone, a laser on each input
SplitterScript(l1, l2) ==
    <<CallAdd("c3"), CallInput(l1, Ref("S", 1)), CallInput(l2, Ref("S", 2)),
      CallOutput(Ref("S", 3)), CallOutput(Ref("S", 4))>>

\* one component, its output designated n times; B is added and left unwired
SingleScript(l, n) ==
    <<CallAdd("c1"), CallAdd("c2"), CallInput(l, Ref("A", 1))>>
    \o [j \in 1..n |-> CallOutput(Ref("A", 2))]

\* two chains A -> B and D -> E side by side
TwoChainsScript ==
    <<CallAdd("c1"), CallAdd("c2"), CallAdd("c5"), CallAdd("c6"),
      CallConnect(Ref("A", 2), Ref("B", 1)), CallConnect(Ref("D", 2), Ref("E", 1)),
      CallInput("L1", Ref("A", 1)), CallInput("L2", Ref("D", 1)),
      CallOutput(Ref("B", 2)), CallOutput(Ref("E", 2))>>

\* a ring A -> B -> A entered from a splitter output
RingScript ==
    <<CallAdd("c1"), CallAdd("c2"), CallAdd("c3"),
      CallConnect(Ref("A", 2), Ref("B", 1)), CallConnect(Ref("B", 2), Ref("A", 1)),
      CallConnect(Ref("S", 3), Ref("A", 1)),
      CallInput("L1", Ref("S", 1)), CallOutput(Ref("S", 4))>>

\* a splitter with a laser on each input and one output designated twice
SplitterTwiceScript(l1, l2) ==
    <<CallAdd("c3"), CallInput(l1, Ref("S", 1)), CallInput(l2, Ref("S", 2)),
      CallOutput(Ref("S", 3)), CallOutput(Ref("S", 3))>>

\* A -> splitter -> B through one input and one output of the splitter
ThroughSplitterScript ==
    <<CallAdd("c1"), CallAdd("c3"), CallAdd("c2"),
      CallConnect(Ref("A", 2), Ref("S", 1)), CallConnect(Ref("S", 3), Ref("B", 1)),
      CallInput("L1", Ref("A", 1)), CallOutput(Ref("B", 2))>>

\* one component in use, followed in the list by two that are left unwired
TwoUnwiredScript ==
    <<CallAdd("c1"), CallAdd("c2"), CallAdd("c5"),
      CallInput("L1", Ref("A", 1)), CallOutput(Ref("A", 2))>>

\* the outputs of A and B wired to each other; B's input port is the output
OutputsWiredScript ==
    <<CallAdd("c1"), CallAdd("c2"), CallConnect(Ref("A", 2), Ref("B", 2)),
      CallInput("L1", Ref("A", 1)), CallOutput(Ref("B", 1))>>

\* the inputs of A and B wired to each other; the laser enters at B's output
InputsWiredScript ==
    <<CallAdd("c1"), CallAdd("c2"), CallConnect(Ref("A", 1), Ref("B", 1)),
      CallInput("L1", Ref("B", 2)), CallOutput(Ref("A", 2))>>

\* one component with an output and no input; the circuit with nothing in it
OutputOnlyScript == <<CallAdd("c1"), CallOutput(Ref("A", 2))>>
NothingScript == <<>>

SimScripts ==
    {OutputOnlyScript, NothingScript} \cup
    {SplitterTwiceScript("L1", l2) : l2 \in Lasers} \cup
    {ChainScript(l) : l \in Lasers}
    \cup {ChainIntoSplitterScript(l1, l2) : l1 \in Lasers, l2 \in Lasers}
    \cup {SplitterScript(l1, l2) : l1 \in Lasers, l2 \in Lasers}
    \cup {SingleScript(l, n) : l \in Lasers, n \in 0..2}
    \cup {TwoChainsScript, RingScript, ThroughSplitterScript, TwoUnwiredScript}
    \cup {OutputsWiredScript, InputsWiredScript}

SimStarts == {Run(EmptyCircuit, script) : script \in SimScripts}

InitSim ==
    /\ circuit \in SimStarts
    /\ call = NoCall
    /\ result = "-"
    /\ pre = circuit
    /\ calls = 0
    /\ failed = FALSE
    /\ roundtrip = NoRoundTrip
    /\ SimIdle
    /\ SolverIdle
    /\ AliasIdle

SpecSim == InitSim /\ [][NextSim]_vars

(***************************************************************************)
(* Simulation._select_solver: the choice between the dense and the sparse  *)
(* linear solver for the assembled system matrix.                          *)
(***************************************************************************)
COMPLEX_SIZE_BYTES == 16
GB_TO_BYTES == 1073741824
DENSE_DOMAIN_SIZE == 1000
MEMORY_LIMIT_GB == 8
\* _LIMITING_DENSITY = 0.02, held as a percentage
LIMITING_DENSITY_PERCENT == 2

DENSE == "DENSE"
SPARSE == "SPARSE"

\* the selector with its first test (the small-matrix shortcut) left out
select_solver_without_dense_domain(dim, nnz) ==
    IF dim * dim > MEMORY_LIMIT_GB * (GB_TO_BYTES \div COMPLEX_SIZE_BYTES)
    THEN SPARSE
    ELSE IF 100 * nnz < LIMITING_DENSITY_PERCENT * (dim * dim)
    THEN SPARSE
    ELSE DENSE

\* density = nnz / dim**2 and estimated_dense_size_gb = dim**2 * 16 / 1024**3
\* are compared in integers: the size test is divided through by the 16 bytes
\* of one entry (16 divides 1024**3), the density test multiplied through by
\* 100 * dim**2; both stay below 2^31 for the systems enumerated below.
select_solver(dim, nnz) ==
    IF dim < DENSE_DOMAIN_SIZE
    THEN DENSE
    ELSE IF dim * dim > MEMORY_LIMIT_GB * (GB_TO_BYTES \div COMPLEX_SIZE_BYTES)
    THEN SPARSE
    ELSE IF 100 * nnz < LIMITING_DENSITY_PERCENT * (dim * dim)
    THEN SPARSE
    ELSE DENSE

\* dim = 2P for a circuit of P ports (P >= 1: block_diag of no component
\* matrices raises before the selector is reached)
Dims == {2, 4, 900, 998, 1000, 1002, 2000, 23170, 23172, 30000}
MaxNonZeros == 21000000

NonZeros(dim) ==
    LET d2 == dim * dim
        limit == (LIMITING_DENSITY_PERCENT * d2) \div 100
    IN  {n \in {0, 1, dim, d2 \div 100, limit - 1, limit, limit + 1,
                d2 \div 2, d2} : n >= 0 /\ n <= d2 /\ n <= MaxNonZeros}

Systems == UNION {{[dim |-> d, nnz |-> n] : n \in NonZeros(d)} : d \in Dims}

InitSolver ==
    /\ circuit = EmptyCircuit
    /\ call = NoCall
    /\ result = "-"
    /\ pre = circuit
    /\ calls = 0
    /\ failed = FALSE
    /\ roundtrip = NoRoundTrip
    /\ SimIdle
    /\ matrix \in Systems
    /\ solver = NoSolver
    /\ AliasIdle

SelectSolver ==
    /\ pc = "idle"
    /\ matrix # NoSystem
    /\ solver = NoSolver
    /\ solver' = select_solver(matrix.dim, matrix.nnz)
    /\ UNCHANGED <<circuit, pre, buildvars, simvars, aliasvars, matrix>>

NextSolver == SelectSolver

SpecSolver == InitSolver /\ [][NextSolver]_vars

(***************************************************************************)
(* Component: the alias dictionaries of one component with two input and   *)
(* two output ports.  Every alias method starts with                       *)
(* `from .exceptions import ...`; lumen/circuit/exceptions.py in turn      *)
(* imports the top-level module circuit.component, so that the statement   *)
(* raises ImportError (ModuleNotFoundError) unless the installation makes  *)
(* that module importable.  DuplicateAliasException and                    *)
(* MissingAliasException take a required second argument `message`; the    *)
(* raise statements pass one argument and end in TypeError.                *)
(***************************************************************************)
AliasComp == "c3"
AliasIndices == {-1, 0, 1, 2}

input_ports(c) == [k \in 1..num_inputs(c) |-> <<c, k>>]
output_ports(c) == [k \in 1..num_outputs(c) |-> <<c, num_inputs(c) + k>>]

\* list[k] for a Python index k
Item(list, k) ==
    IF k >= 0 /\ k < Len(list) THEN Resolved(list[k + 1])
    ELSE IF k < 0 /\ k >= -Len(list) THEN Resolved(list[Len(list) + k + 1])
    ELSE Failed("IndexError")

AliasRet(st, err, port) == [st |-> st, err |-> err, port |-> port]

set_input_alias(st, importable, index, alias) ==
    IF ~importable THEN AliasRet(st, "ImportError", NoPort)
    ELSE IF st.input[alias] # NoPort
    THEN AliasRet(st, "TypeError", NoPort)
    ELSE LET input_port == Item(input_ports(AliasComp), index)
         IN  IF input_port.err # "ok"
             THEN AliasRet(st, input_port.err, NoPort)
             ELSE AliasRet([st EXCEPT !.input[alias] = input_port.port], "ok", NoPort)

set_output_alias(st, importable, index, alias) ==
    IF ~importable THEN AliasRet(st, "ImportError", NoPort)
    ELSE IF st.output[alias] # NoPort
    THEN AliasRet(st, "TypeError", NoPort)
    ELSE LET output_port == Item(output_ports(AliasComp), index)
         IN  IF output_port.err # "ok"
             THEN AliasRet(st, output_port.err, NoPort)
             ELSE AliasRet([st EXCEPT !.output[alias] = output_port.port], "ok", NoPort)

search_by_input_alias(st, importable, alias) ==
    IF ~importable THEN AliasRet(st, "ImportError", NoPort)
    ELSE IF st.input[alias] = NoPort
    THEN AliasRet(st, "TypeError", NoPort)
    ELSE AliasRet(st, "ok", st.input[alias])

search_by_output_alias(st, importable, alias) ==
    IF ~importable THEN AliasRet(st, "ImportError", NoPort)
    ELSE IF st.output[alias] = NoPort
    THEN AliasRet(st, "TypeError", NoPort)
    ELSE AliasRet(st, "ok", st.output[alias])

AliasState == [input |-> input_port_aliases, output |-> output_port_aliases]

DoAlias(c, r) ==
    /\ input_port_aliases' = r.st.input
    /\ output_port_aliases' = r.st.output
    /\ alias_call' = c
    /\ alias_result' = [err |-> r.err, port |-> r.port]
    /\ alias_pre' = AliasState
    /\ UNCHANGED <<circuit, pre, buildvars, simvars, solvervars, exceptions_importable>>

SetInputAlias ==
    \E index \in AliasIndices, alias \in AliasNames :
        /\ pc = "idle"
        /\ DoAlias([op |-> "set_input_alias", index |-> index, alias |-> alias],
                   set_input_alias(AliasState, exceptions_importable, index, alias))

SetOutputAlias ==
    \E index \in AliasIndices, alias \in AliasNames :
        /\ pc = "idle"
        /\ DoAlias([op |-> "set_output_alias", index |-> index, alias |-> alias],
                   set_output_alias(AliasState, exceptions_importable, index, alias))

SearchByInputAlias ==
    \E alias \in AliasNames :
        /\ pc = "idle"
        /\ DoAlias([op |-> "search_by_input_alias", index |-> 0, alias |-> alias],
                   search_by_input_alias(AliasState, exceptions_importable, alias))

SearchByOutputAlias ==
    \E alias \in AliasNames :
        /\ pc = "idle"
        /\ DoAlias([op |-> "search_by_output_alias", index |-> 0, alias |-> alias],
                   search_by_output_alias(AliasState, exceptions_importable, alias))

InitAlias ==
    /\ circuit = EmptyCircuit
    /\ call = NoCall
    /\ result = "-"
    /\ pre = circuit
    /\ calls = 0
    /\ failed = FALSE
    /\ roundtrip = NoRoundTrip
    /\ SimIdle
    /\ SolverIdle
    /\ input_port_aliases = NoAliases
    /\ output_port_aliases = NoAliases
    /\ alias_call = NoAliasCall
    /\ alias_result = NoAliasResult
    /\ alias_pre = AliasState
    /\ exceptions_importable \in BOOLEAN

NextAlias ==
    \/ SetInputAlias
    \/ SetOutputAlias
    \/ SearchByInputAlias
    \/ SearchByOutputAlias

SpecAlias == InitAlias /\ [][NextAlias]_vars

(***************************************************************************)
(* The ports the last call named, resolved in the circuit it was made on.  *)
(***************************************************************************)
SourcePort == get_port_from_ref(pre, call.source).port
DestinationPort == get_port_from_ref(pre, call.destination).port
Returned == result = "ok"
HasRaised == result \notin {"ok", "-"}

Wired(st, c, t) ==
    Cardinality({p \in PortsOf(c) : port_type(p) = t /\ st.connection[p] # NoConnection})

\* C1: after successful builder calls every wire is symmetric and no port is
\* wired to itself: p.connection = ToPort(q) implies q.connection = ToPort(p)
\* and p # q.
C1_SymmetricWires ==
    (~failed) =>
        \A p \in Ports :
            circuit.connection[p].tag = "PortConnection" =>
                /\ circuit.connection[p].port # p
                /\ circuit.connection[circuit.connection[p].port] = PortConnection(p)

\* C2: for every component, in_degree is the number of its INPUT ports whose
\* connection is not None and out_degree the number of its OUTPUT ports whose
\* connection is not None.
C2_DegreesCountWiredPorts ==
    \A c \in UserComps :
        /\ circuit.in_degree[c] = Wired(circuit, c, INPUT)
        /\ circuit.out_degree[c] = Wired(circuit, c, OUTPUT)

\* C4: a builder call that raises leaves the circuit as it was before the call.
C4_RaiseLeavesCircuitUnchanged ==
    HasRaised => circuit = pre

\* C5: no port is both a key of the input map and a member of the output list;
\* set_circuit_input on a circuit output and set_circuit_output on a circuit
\* input raise ConflictingConnection.
C5_NeverInputAndOutput ==
    /\ InputPorts(circuit) \cap Range(circuit.circuit_outputs) = {}
    /\ (call.op = "set_circuit_input" /\ SourcePort \in Range(pre.circuit_outputs))
          => result = "ConflictingConnectionException"
    /\ (call.op = "set_circuit_output" /\ SourcePort \in InputPorts(pre))
          => result = "ConflictingConnectionException"

\* C6: after connect(source, destination) returns, neither endpoint is a key
\* of the input map or a member of the output list.
C6_ConnectDemotesBothEndpoints ==
    (call.op = "connect" /\ Returned) =>
        \A p \in {SourcePort, DestinationPort} :
            /\ p \notin InputPorts(circuit)
            /\ p \notin Range(circuit.circuit_outputs)

\* C7: connect raises SelfConnection whenever both references resolve to the
\* same port, the rejected call leaves the circuit unchanged, and no port is
\* ever wired to itself.
C7_SelfConnectionRejected ==
    /\ (call.op = "connect" /\ SourcePort # NoPort /\ SourcePort = DestinationPort)
          => (result = "SelfConnectionException" /\ circuit = pre)
    /\ \A p \in Ports : circuit.connection[p] # PortConnection(p)

\* C8: connect(a, b) of two distinct dangling ports followed by disconnect(a)
\* or disconnect(b) leaves both ports dangling and the degree counters of both
\* owning components as they were before the connect.
C8_ConnectDisconnectRestores ==
    roundtrip.stage = 2 =>
        /\ circuit.connection[roundtrip.a] = NoConnection
        /\ circuit.connection[roundtrip.b] = NoConnection
        /\ \A c \in {component(roundtrip.a), component(roundtrip.b)} :
              /\ circuit.in_degree[c] = roundtrip.in_degree[c]
              /\ circuit.out_degree[c] = roundtrip.out_degree[c]

C8_Witness ==
    /\ roundtrip.stage = 2
    /\ call.op = "disconnect"
    /\ pre.connection[roundtrip.a] = PortConnection(roundtrip.b)
    /\ pre.connection[roundtrip.b] = PortConnection(roundtrip.a)

\* C3: simulate(times) and get_s_parameters(wavelengths) leave the caller's
\* circuit unchanged at every step of the call and after it, whether the
\* call returns, raises or does not end: condensation acts on the copy only.
C3_CallerCircuitUnchanged ==
    pc # "idle" => circuit = pre

C3_Witness ==
    /\ pc \in {"returned", "raised"}
    /\ local = "copy"
    /\ "k1" \in Range(work.components)
    /\ "k1" \notin Range(circuit.components)
    /\ work.connection # circuit.connection

\* one sample of a result list: the times its lights were solved for
SampleTimes(sample) == {sample.lights[j].time : j \in 1..Len(sample.lights)}

\* C9: for a circuit with at least one input and one output, simulate(times)
\* returns and its result holds for each output port of the caller's circuit
\* exactly len(times) samples, the one at position i solved for times[i].
C9_SamplesAlignedWithTimes ==
    /\ (sim.entry = "simulate" /\ pc = "raised")
          => (Len(pre.circuit_inputs) = 0 \/ Len(pre.circuit_outputs) = 0)
    /\ (sim.entry = "simulate" /\ pc = "returned") =>
          \A p \in Range(circuit.circuit_outputs) :
              /\ Len(lights[p]) = Len(sim.times)
              /\ \A i \in 1..Len(lights[p]) :
                    i <= Len(sim.times) => SampleTimes(lights[p][i]) = {sim.times[i]}

\* the blocks of a global S matrix that are Redheffer folds of a chain
Folds(S) == {S[j] : j \in {i \in 1..Len(S) : Len(S[i].chain) >= 2}}

\* the solves recorded so far, each with the wavelength it was made for
Solves ==
    {[S |-> l.S, wavelength |-> l.wavelength] :
        l \in UNION {UNION {Range(lights[p][i].lights) : i \in 1..Len(lights[p])} :
                        p \in Ports}}
    \cup {[S |-> s_parameters[i].S, wavelength |-> s_parameters[i].wavelength] :
             i \in 1..Len(s_parameters)}

\* C10: at every solve the matrix of each condensed component is the fold of
\* its chain at the wavelength of that solve, never the one computed at the
\* dummy wavelength, and the rebuild completes whenever the circuit has a chain.
C10_FoldsAtSolveWavelength ==
    /\ \A s \in Solves : \A m \in Folds(s.S) :
          m.wavelength = s.wavelength /\ m.wavelength # DUMMY_WAVELENGTH
    /\ (pc = "raised" /\ sim.sequential_paths # <<>>) => error # "TypeError"

(***************************************************************************)
(* The field that leaves a port, as the set of signal paths that reach it: *)
(* the source each path starts at and the component matrices it passes     *)
(* through, each with the wavelength it was evaluated at.  The matrix of a *)
(* _CondensedComponent stands for the matrices of its chain at the         *)
(* wavelength it was folded at.                                            *)
(***************************************************************************)
\* the port of the caller's circuit that a port of the working copy stands for
Orig(st, p) ==
    IF component(p) \notin CondensedComps THEN p
    ELSE LET chain == st.s_matrix[component(p)].chain
         IN  IF p[2] = 1 THEN <<chain[1], 1>> ELSE <<chain[Len(chain)], 2>>

Blocks(st, c, wavelength, from, to) ==
    IF c \in CondensedComps
    THEN [j \in 1..Len(st.s_matrix[c].chain) |->
             [component |-> st.s_matrix[c].chain[j],
              wavelength |-> st.s_matrix[c].wavelength, from |-> 1, to |-> 2]]
    ELSE <<[component |-> c, wavelength |-> wavelength, from |-> from, to |-> to]>>

RECURSIVE Leaving(_, _, _, _)
Leaving(st, p, wavelength, depth) ==
    IF depth = 0 \/ port_type(p) # OUTPUT THEN {}
    ELSE LET c == component(p)
             Arriving(q) ==
                 IF st.connection[q].tag = "InputConnection"
                 THEN {[source |-> Orig(st, q), blocks |-> <<>>]}
                 ELSE IF st.connection[q].tag = "PortConnection"
                 THEN Leaving(st, st.connection[q].port, wavelength, depth - 1)
                 ELSE {}
         IN  UNION {{[source |-> a.source,
                      blocks |-> a.blocks \o Blocks(st, c, wavelength, q[2], p[2])] :
                         a \in Arriving(q)} :
                    q \in {r \in PortsOf(c) : port_type(r) = INPUT}}

OutputField(st, idx, wavelength) ==
    Leaving(st, st.circuit_outputs[idx], wavelength, Cardinality(Comps))

\* the working copy has been condensed and is being solved
Solving == pc \in {"coherent", "incoherent", "sweep", "returned"}

\* C11: condensation preserves the output fields: at every output port and
\* every wavelength, solving the condensed working copy gives the field that
\* solving the caller's circuit as it is gives.
C11_CondensationPreservesFields ==
    Solving =>
        \A w \in SweepWavelengths : \A idx \in 1..Len(circuit.circuit_outputs) :
            /\ idx <= Len(Local.circuit_outputs)
            /\ OutputField(Local, idx, w) = OutputField(circuit, idx, w)

\* the lasers of the working copy's input map, in iteration order
InputLasers(st) == {st.circuit_inputs[j].laser : j \in 1..Len(st.circuit_inputs)}

\* C12: simulate takes the constant-wavelength path exactly when, for each
\* laser, the spread max - min of its wavelengths over times is strictly
\* below the tolerance, in the coherent and in the incoherent regime alike.
C12_ConstantIffSpreadBelowTolerance ==
    (sim.entry = "simulate" /\ pc \in {"coherent", "incoherent"}) =>
        (sim.constant_wavelength <=>
            \A l \in InputLasers(Local) :
                Spread(Sampled(l, sim.times)) < WAVELENGTH_TOLERANCE)

\* C13: in the incoherent regime every output sample holds exactly one
\* component field per source, in the iteration order of the caller's input
\* map, the same at every sample index.
C13_OneFieldPerSourceInInputOrder ==
    (sim.entry = "simulate" /\ sim.coherence = INCOHERENT
        /\ pc \in {"incoherent", "returned"}) =>
        \A p \in Range(circuit.circuit_outputs) : \A i \in 1..Len(lights[p]) :
            /\ Len(lights[p][i].lights) = Len(circuit.circuit_inputs)
            /\ \A j \in 1..Len(lights[p][i].lights) :
                  j <= Len(circuit.circuit_inputs) =>
                      Orig(Local, lights[p][i].lights[j].source)
                          = circuit.circuit_inputs[j].port

\* C14: simulate and get_s_parameters raise EmptyInterface exactly when the
\* input map or the output list is empty, before the circuit is copied or
\* condensed and before a laser is sampled; with an input and an output they
\* never raise it.
C14_EmptyInterfaceExactlyWhenEmpty ==
    pc # "idle" =>
        IF Len(pre.circuit_inputs) = 0 \/ Len(pre.circuit_outputs) = 0
        THEN /\ pc = "raised"
             /\ error = "EmptyInterfaceException"
             /\ local = "-"
             /\ work = EmptyCircuit
             /\ sim.sequential_paths = <<>>
             /\ sim.wavelengths = <<>>
             /\ \A l \in Lasers : sim.input_wavelengths[l] = <<>>
        ELSE error # "EmptyInterfaceException"

C14_Witness ==
    /\ pc = "raised"
    /\ error = "EmptyInterfaceException"
    /\ Len(pre.circuit_inputs) > 0
    /\ Len(pre.circuit_outputs) = 0
    /\ Len(sim.times) > 0

\* C15: the solver chosen for a matrix depends only on its dimension and its
\* non-zero count: DENSE below dimension 1000; otherwise SPARSE when the dense
\* form (16 bytes per entry) exceeds 8 GiB; otherwise SPARSE when the density
\* is below 0.02; otherwise DENSE.  Dimension 2000 at density 0.01 gives
\* SPARSE and dimension 900 gives DENSE whatever the density.
C15_SolverChoice ==
    solver # NoSolver =>
        LET dim == matrix.dim
            nnz == matrix.nnz
            d2 == dim * dim
        IN  /\ solver \in {DENSE, SPARSE}
            /\ (solver = DENSE) <=>
                   \/ dim < 1000
                   \/ d2 <= 536870912 /\ 50 * nnz >= d2
            /\ (dim = 2000 /\ 100 * nnz = d2) => solver = SPARSE
            /\ dim = 900 => solver = DENSE

C15_Witness ==
    /\ solver = SPARSE
    /\ matrix.dim = 2000
    /\ matrix.nnz = 40000

\* C16: an integer port reference i resolves to the i-th port of the
\* component's port list (inputs first, then outputs) for i in 1..N; for an
\* index outside 1..N (0, negative, above N) it resolves to no port and the
\* builder call that received it fails and leaves the circuit unchanged.
IntegerRefs == {r \in {call.source, call.destination} :
                   /\ r # NoRef
                   /\ r.kind = "int"
                   /\ pre.names_to_components[r.component] # NoComp}

C16_IndexResolvesWithinRange ==
    \A r \in IntegerRefs :
        LET c == pre.names_to_components[r.component]
            resolved == get_port_from_ref(pre, r)
        IN  IF r.index \in 1..NumPorts(c)
            THEN resolved.err = "ok" /\ resolved.port = <<c, r.index>>
            ELSE /\ resolved.port = NoPort
                 /\ HasRaised
                 /\ circuit = pre

\* C17: setting an alias that is already an alias of any port of the same
\* component, on either side, raises DuplicateAlias and leaves the alias map
\* unchanged; otherwise the alias is installed and maps to exactly the indexed
\* port (indices are 1-based); no alias ever names two ports of the component;
\* searching an alias that was never set raises MissingAlias.
AliasKnown(a) == alias_pre.input[a] # NoPort \/ alias_pre.output[a] # NoPort

C17_AliasesUniqueAcrossSides ==
    /\ (alias_call.op \in {"set_input_alias", "set_output_alias"}
            /\ AliasKnown(alias_call.alias))
          => /\ alias_result.err = "DuplicateAliasException"
             /\ AliasState = alias_pre
    /\ (alias_call.op = "set_input_alias" /\ ~AliasKnown(alias_call.alias)
            /\ alias_call.index \in 1..num_inputs(AliasComp))
          => /\ alias_result.err = "ok"
             /\ input_port_aliases[alias_call.alias]
                    = input_ports(AliasComp)[alias_call.index]
    /\ (alias_call.op = "set_output_alias" /\ ~AliasKnown(alias_call.alias)
            /\ alias_call.index \in 1..num_outputs(AliasComp))
          => /\ alias_result.err = "ok"
             /\ output_port_aliases[alias_call.alias]
                    = output_ports(AliasComp)[alias_call.index]
    /\ \A a \in AliasNames :
          input_port_aliases[a] = NoPort \/ output_port_aliases[a] = NoPort
    /\ (alias_call.op = "search_by_input_alias"
            /\ alias_pre.input[alias_call.alias] = NoPort)
          => alias_result.err = "MissingAliasException"
    /\ (alias_call.op = "search_by_output_alias"
            /\ alias_pre.output[alias_call.alias] = NoPort)
          => alias_result.err = "MissingAliasException"

\* C18: every component in the component list has its back-pointer set to the
\* circuit; a component that was removed has its back-pointer cleared, and
\* none of its ports is referenced by the connection of a port of a remaining
\* component, by the input map or by the output list.
Referenced(st, p) ==
    \/ \E q \in Ports : /\ component(q) \in Range(st.components)
                         /\ st.connection[q] = PortConnection(p)
    \/ p \in InputPorts(st)
    \/ p \in Range(st.circuit_outputs)

C18_RemovedComponentUnreferenced ==
    /\ \A c \in Range(circuit.components) : circuit.photonic_circuit[c]
    /\ (call.op = "remove" /\ Returned) =>
          /\ ~circuit.photonic_circuit[call.component]
          /\ call.component \notin Range(circuit.components)
          /\ \A p \in PortsOf(call.component) : ~Referenced(circuit, p)

Regime == IF Len(circuit.circuit_inputs) = 1 THEN COHERENT ELSE INCOHERENT

C20_RegimeFollowsInputCount ==
    (sim.entry = "simulate" /\ Len(circuit.circuit_inputs) >= 1
        /\ error # "EmptyInterfaceException") =>
        /\ sim.coherence = Regime
        /\ \A p \in Ports : \A i \in 1..Len(lights[p]) :
              lights[p][i].kind = Regime

C20_Witness ==
    /\ pc = "returned"
    /\ sim.entry = "simulate"
    /\ Len(circuit.circuit_inputs) = 2
    /\ sim.coherence = INCOHERENT
    /\ \E p \in Range(circuit.circuit_outputs) :
          /\ Len(lights[p]) = Len(sim.times)
          /\ Len(lights[p]) > 0
          /\ \A i \in 1..Len(lights[p]) : lights[p][i].kind = INCOHERENT

\* C21: for a working circuit with k >= 0 disjoint maximal chains of length
\* >= 2, condensation completes without error and replaces each chain by its
\* own condensed component: afterwards the component list holds exactly k
\* condensed components and none of the chains' original components.
Sequential(st, c) == c \in Range(st.components) /\ ~IsAnchor(st, c)

Successor(st, c) ==
    LET connection == st.connection[<<c, 2>>]
    IN  IF connection.tag = "PortConnection"
           /\ port_type(connection.port) = INPUT
           /\ Sequential(st, component(connection.port))
        THEN component(connection.port)
        ELSE NoComp

ChainMembers(st) ==
    {c \in Comps : /\ Sequential(st, c)
                   /\ \/ Successor(st, c) # NoComp
                      \/ \E d \in Comps : Sequential(st, d) /\ Successor(st, d) = c}

ChainHeads(st) ==
    {c \in ChainMembers(st) :
        ~\E d \in Comps : Sequential(st, d) /\ Successor(st, d) = c}

Condensed(st) == Range(st.components) \cap CondensedComps

\* every wire is held by both of its ends
WellWired(st) ==
    \A p \in Ports :
        st.connection[p].tag = "PortConnection" =>
            st.connection[st.connection[p].port] = PortConnection(p)

C21_EveryChainCondensed ==
    [][(pc = "condense" /\ WellWired(Local)) =>
          /\ pc' = "assemble"
          /\ Cardinality(Condensed(Local')) = Cardinality(ChainHeads(Local))
          /\ ChainMembers(Local) \cap Range(Local'.components) = {}]_vars

\* C22: every component that condensation places in a chain and fuses has
\* exactly one input port and one output port; a component with more than two
\* ports is always an anchor and is never fused, however many of its ports are
\* wired or tagged.
Fused == UNION {Range(sim.sequential_paths[j]) : j \in 1..Len(sim.sequential_paths)}

C22_OnlyTwoPortComponentsFused ==
    /\ \A c \in Fused : num_inputs(c) = 1 /\ num_outputs(c) = 1
    /\ (pc \in {"assemble", "coherent", "incoherent", "sweep", "returned"}) =>
          \A c \in Range(circuit.components) :
              (NumPorts(c) > 2 /\ ~is_disconnected(circuit, c))
                  => c \in Range(Local.components)

\* C23: after condensation no component remaining in the working copy's
\* component list has every port dangling, whatever the number and placement
\* of fully disconnected components, two or more adjacent ones included.
C23_NoDisconnectedComponentLeft ==
    (pc \in {"assemble", "coherent", "incoherent", "sweep", "returned"}) =>
        \A c \in Range(Local.components) : ~is_disconnected(Local, c)

\* C24: after a chain is spliced out, the port that was wired to the chain's
\* first input port is wired, in both directions, to the condensed input port
\* and the port that was wired to the chain's last output port to the
\* condensed output port; a CircuitInput tag on the first input port moves
\* with its laser to the condensed input port, a CircuitOutput tag on the last
\* output port moves to the condensed output port at the same position of the
\* output list; no port of a remaining component is wired to a port of a
\* removed chain component.
C24_SpliceKeepsNeighbours ==
    [][(pc = "condense" /\ pc' = "assemble" /\ Len(sim'.sequential_paths) = 1) =>
          LET chain == sim'.sequential_paths[1]
              first == <<chain[1], 1>>
              last == LET c == chain[Len(chain)] IN <<c, num_inputs(c) + 1>>
              upstream == Local.connection[first]
              downstream == Local.connection[last]
              condensed_in == <<NewCondensed(1), 1>>
              condensed_out == <<NewCondensed(1), 2>>
          IN  /\ upstream.tag = "PortConnection" =>
                    /\ Local'.connection[upstream.port] = PortConnection(condensed_in)
                    /\ Local'.connection[condensed_in] = PortConnection(upstream.port)
              /\ downstream.tag = "PortConnection" =>
                    /\ Local'.connection[downstream.port] = PortConnection(condensed_out)
                    /\ Local'.connection[condensed_out] = PortConnection(downstream.port)
              /\ upstream.tag = "InputConnection" =>
                    /\ Local'.connection[condensed_in].tag = "InputConnection"
                    /\ first \notin InputPorts(Local')
                    /\ condensed_in \in InputPorts(Local')
                    /\ DictGet(Local'.circuit_inputs, condensed_in)
                          = DictGet(Local.circuit_inputs, first)
              /\ downstream.tag = "OutputConnection" =>
                    /\ Local'.connection[condensed_out].tag = "OutputConnection"
                    /\ Len(Local'.circuit_outputs) = Len(Local.circuit_outputs)
                    /\ \A i \in 1..Len(Local.circuit_outputs) :
                          Local'.circuit_outputs[i] =
                              IF Local.circuit_outputs[i] = last
                              THEN condensed_out ELSE Local.circuit_outputs[i]
              /\ \A p \in Ports :
                    (component(p) \in Range(Local'.components)
                        /\ Local'.connection[p].tag = "PortConnection")
                    => component(Local'.connection[p].port) \notin Range(chain)]_vars

\* the component fields of an incoherent result, each with the laser of the
\* source that produced it
SourceFields ==
    {[light |-> l, laser |-> DictGet(Local.circuit_inputs, l.source)] :
        l \in {m \in UNION {UNION {Range(lights[p][i].lights) :
                                     i \in 1..Len(lights[p])} : p \in Ports} :
                  m.source \in InputPorts(Local)}}

\* C25: in the incoherent regime with varying wavelength, the solve for source
\* j at times[i] uses the global S assembled at source j's wavelength at
\* times[i], never the matrix assembled for an earlier sample.
C25_SolveUsesMatrixOfItsSample ==
    (sim.entry = "simulate" /\ sim.coherence = INCOHERENT
        /\ ~sim.constant_wavelength) =>
        \A f \in SourceFields :
            \A k \in 1..Len(f.light.S) :
                f.light.S[k].wavelength = laser_wavelength(f.laser, f.light.time)

\* C26: with the P ports of the working circuit indexed in component insertion
\* order, the connectivity matrix C is symmetric, every entry is 0 or 1, the
\* diagonal is zero, and C[2k,2q] = C[2k+1,2q+1] = 1 exactly when ports k and q
\* are wired to each other, whatever their port types; every other entry is 0.
WiredTogether(st, a, b) ==
    st.connection[a] = PortConnection(b) /\ st.connection[b] = PortConnection(a)

C26_ConnectivityMatrixMatchesWires ==
    (pc \in {"coherent", "incoherent", "sweep", "returned"}) =>
        LET C == get_connectivity_matrix(Local)
            ports == index_to_port(Local)
            P == Len(ports)
        IN  /\ \A r, c \in 0..(2 * P - 1) :
                  /\ C[r][c] \in {0, 1}
                  /\ C[r][c] = C[c][r]
            /\ \A r \in 0..(2 * P - 1) : C[r][r] = 0
            /\ \A k, q \in 0..(P - 1) :
                  LET one == IF WiredTogether(Local, ports[k + 1], ports[q + 1])
                             THEN 1 ELSE 0
                  IN  /\ C[2 * k][2 * q] = one
                      /\ C[2 * k + 1][2 * q + 1] = one
                      /\ C[2 * k][2 * q + 1] = 0
                      /\ C[2 * k + 1][2 * q] = 0

\* C27: after any sequence of builder calls a port is a key of the input map
\* if and only if its connection is the CircuitInput tag, and a member of the
\* output list if and only if its connection is the CircuitOutput tag; a
\* disconnect of a tagged port also drops its laser mapping or its entry of
\* the output list.
C27_TagsMatchInterface ==
    /\ \A p \in Ports :
          /\ p \in InputPorts(circuit)
                <=> circuit.connection[p].tag = "InputConnection"
          /\ p \in Range(circuit.circuit_outputs)
                <=> circuit.connection[p].tag = "OutputConnection"
    /\ (call.op = "disconnect" /\ Returned) =>
          /\ SourcePort \notin InputPorts(circuit)
          /\ SourcePort \notin Range(circuit.circuit_outputs)

\* C28: after any sequence of builder calls the output list holds each port at
\* most once: set_circuit_output on a port that is already a circuit output
\* adds no second entry (so that simulate appends one sample per time to that
\* port's result list).
C28_OutputListHasNoDuplicates ==
    /\ \A i, j \in 1..Len(circuit.circuit_outputs) :
          i # j => circuit.circuit_outputs[i] # circuit.circuit_outputs[j]
    /\ (call.op = "set_circuit_output" /\ SourcePort \in Range(pre.circuit_outputs))
          => circuit.circuit_outputs = pre.circuit_outputs

\* C29: for every circuit reachable through builder calls, circuits in which
\* connect wired two outputs or two inputs included, the condenser's forward
\* walk from an anchor output or a circuit input terminates, visits each
\* component at most once, and no component appears in two discovered chains.
Walks(st) ==
    LET pruned == PruneFrom(st, 1)
        anchors == anchor_components(pruned)
        starts == WalkStarts(pruned, anchors)
    IN  [j \in 1..Len(starts) |-> find_sequential_chain(pruned, starts[j], anchors)]

DiscoveredChains(st) ==
    LET LongEnough(w) == Len(w.chain) >= 2
    IN  SelectSeq(Walks(st), LongEnough)

C29_WalkTerminatesChainsDisjoint ==
    LET walks == Walks(circuit)
        chains == DiscoveredChains(circuit)
    IN  /\ \A j \in 1..Len(walks) :
              /\ ~walks[j].hang
              /\ \A a, b \in 1..Len(walks[j].chain) :
                    a # b => walks[j].chain[a] # walks[j].chain[b]
        /\ \A i, j \in 1..Len(chains) :
              i # j => Range(chains[i].chain) \cap Range(chains[j].chain) = {}

\* C30: in an incoherent result, the component field produced by source j at
\* sample index i carries source j's wavelength at times[i], for every output
\* port, in the constant-wavelength path (where the wavelength of a source
\* moves by at most the tolerance) and in the varying-wavelength path; it
\* never carries the wavelength of another source.
CarriesOwnWavelength(f) ==
    LET own == laser_wavelength(f.laser, f.light.time)
    IN  IF sim.constant_wavelength
        THEN /\ f.light.wavelength - own <= WAVELENGTH_TOLERANCE
             /\ own - f.light.wavelength <= WAVELENGTH_TOLERANCE
        ELSE f.light.wavelength = own

C30_FieldCarriesItsSourceWavelength ==
    (sim.entry = "simulate" /\ sim.coherence = INCOHERENT) =>
        \A f \in SourceFields : CarriesOwnWavelength(f)

====
